---- MODULE Spec2Model ----
(***************************************************************************)
(* forklift: the pagination engine of src/main.rs.  main fetches page 1,   *)
(* reads the total page count, spawns one task per remaining page behind a *)
(* semaphore, joins the tasks in completion order, filters the             *)
(* organization-owned forks and writes the report.                         *)
(***************************************************************************)
EXTENDS Integers, Sequences, FiniteSets, TLC

(* ------------------------------ bounds -------------------------------- *)
\* largest total page count the remote reports, for any semaphore size
MaxPages == 3
\* largest total page count when the semaphore has at most one permit (the
\* tasks then run one after the other)
MaxSerialPages == 4
\* records on a full page (the code asks for per_page(100))
PageSize == 2

(* ------------------------- program constants -------------------------- *)
MAX_RETRIES == 3
DefaultConcurrency == 10
FORBIDDEN == 403

\* the semaphore sizes tried: none, serial, two, and the default
Concurrencies == {0, 1, 2, DefaultConcurrency}

Pages == 1..(IF MaxSerialPages > MaxPages THEN MaxSerialPages ELSE MaxPages)
TaskPages == Pages \ {1}

(* ------------------------- the remote's answers ----------------------- *)
\* One remote error: octocrab::Error::GitHub{status_code, message} or any
\* other variant of octocrab::Error (transport, serde, ...).
Errors ==
  [ RateLimit403 |-> [github |-> TRUE, status_code |-> 403,
                      message |-> <<"A","P","I"," ","R","a","t","e"," ","L","i","m","i","t">>],
    Plain403     |-> [github |-> TRUE, status_code |-> 403,
                      message |-> <<"F","o","r","b","i","d","d","e","n">>],
    NotFound404  |-> [github |-> TRUE, status_code |-> 404,
                      message |-> <<"N","o","t"," ","F","o","u","n","d">>],
    Transport    |-> [github |-> FALSE, status_code |-> 0, message |-> <<>>] ]

FetchErrors == DOMAIN Errors
Outcomes == {"Ok"} \cup FetchErrors

UpperCase == <<"A","B","C","D","E","F","G","H","I","J","K","L","M",
               "N","O","P","Q","R","S","T","U","V","W","X","Y","Z">>
LowerCase == <<"a","b","c","d","e","f","g","h","i","j","k","l","m",
               "n","o","p","q","r","s","t","u","v","w","x","y","z">>

to_ascii_lowercase(s) ==
  [i \in 1..Len(s) |->
     IF \E k \in 1..26 : UpperCase[k] = s[i]
       THEN LowerCase[CHOOSE k \in 1..26 : UpperCase[k] = s[i]]
       ELSE s[i]]

contains(s, pat) ==
  \E i \in 0..(Len(s) - Len(pat)) : SubSeq(s, i + 1, i + Len(pat)) = pat

RateLimitText == <<"r","a","t","e"," ","l","i","m","i","t">>

\* an off-by-one ceiling: one retry too many
should_retry_OneMore(err, att) ==
  IF Errors[err].github
    THEN /\ Errors[err].status_code = FORBIDDEN
         /\ contains(to_ascii_lowercase(Errors[err].message), RateLimitText)
         /\ att <= MAX_RETRIES
    ELSE FALSE

\* every 403 is taken for a rate limit
should_retry_AnyForbidden(err, att) ==
  IF Errors[err].github
    THEN /\ Errors[err].status_code = FORBIDDEN
         /\ att < MAX_RETRIES
    ELSE FALSE

\* the match of lines 282-289
should_retry(err, att) ==
  IF Errors[err].github
    THEN /\ Errors[err].status_code = FORBIDDEN
         /\ contains(to_ascii_lowercase(Errors[err].message), RateLimitText)
         /\ att < MAX_RETRIES
    ELSE FALSE

RECURSIVE pow(_, _)
\* u64::pow; the exponent never exceeds MAX_RETRIES, far from the width
pow(b, e) == IF e = 0 THEN 1 ELSE b * pow(b, e - 1)

\* a linear backoff: 2s, 4s, 6s
backoff_Linear(att) == 2 * att

\* line 294
backoff(att) == pow(2, att)

(* ----------------------------- fork records --------------------------- *)
\* The record at position i of page p.  Owners cycle through: organization
\* with URL, user, organization without URL, no owner.
RecordKind(p, i) == (2 * (p - 1) + (i - 1)) % 4

Record(p, i) ==
  [ name     |-> <<p, i>>,
    owner    |-> CASE RecordKind(p, i) = 0 -> <<[type |-> "Organization", login |-> <<"org", p, i>>]>>
                   [] RecordKind(p, i) = 1 -> <<[type |-> "User", login |-> <<"usr", p, i>>]>>
                   [] RecordKind(p, i) = 2 -> <<[type |-> "Organization", login |-> <<"org", p, i>>]>>
                   [] OTHER -> <<>>,
    html_url |-> IF RecordKind(p, i) \in {0, 1}
                   THEN <<"https://github.com/f" \o ToString(p) \o ToString(i)>>
                   ELSE <<>> ]

\* take_items() of page p holding n records
Items(p, n) == [i \in 1..n |-> Record(p, i)]

RECURSIVE filter_map_AnyOwner(_)
\* the owner's type is not looked at
filter_map_AnyOwner(forks) ==
  IF forks = <<>> THEN <<>>
  ELSE LET fork == Head(forks)
           row  == <<fork.owner[1].login, fork.name,
                     IF fork.html_url = <<>> THEN "" ELSE fork.html_url[1]>>
       IN  IF fork.owner # <<>>
             THEN <<row>> \o filter_map_AnyOwner(Tail(forks))
             ELSE filter_map_AnyOwner(Tail(forks))

RECURSIVE filter_map(_)
\* lines 180-195
filter_map(forks) ==
  IF forks = <<>> THEN <<>>
  ELSE LET fork == Head(forks)
           row  == <<fork.owner[1].login, fork.name,
                     IF fork.html_url = <<>> THEN "" ELSE fork.html_url[1]>>
       IN  IF fork.owner # <<>> /\ fork.owner[1].type = "Organization"
             THEN <<row>> \o filter_map(Tail(forks))
             ELSE filter_map(Tail(forks))

(* -------------------------------- state ------------------------------- *)
VARIABLES
  concurrency,   \* args.concurrency
  lastPage,      \* the remote's total page count: <<>> absent, <<n>> present
  page1Count,    \* number of records on page 1
  mainPc,        \* where main is
  mainErr,       \* the error main returned, "none" otherwise
  all_forks,     \* the aggregate
  page,          \* loop variable of the spawn loop
  permits,       \* available permits of the semaphore
  heldPermit,    \* main holds an acquired permit not yet moved into a task
  completed,     \* the AtomicUsize
  position,      \* the progress bar's position
  taskPc,        \* where each page task is
  attempts,      \* fetch_page_with_retry's local counter, per task
  resp,          \* the answer of the task's last send(), not yet matched
  sleepLeft,     \* seconds left of the task's backoff sleep
  result,        \* the task's result
  count,         \* the task's local count
  taskPermit,    \* the task owns a permit (its _permit)
  sends,         \* ghost: send() calls issued by the page's running fetch
  org_forks,     \* the filtered rows
  written        \* what write_results has put on disk: "no", "partial", "full"

vars == <<concurrency, lastPage, page1Count, mainPc, mainErr, all_forks, page,
          permits, heldPermit, completed, position, taskPc, attempts, resp,
          sleepLeft, result, count, taskPermit, sends, org_forks, written>>

input == <<concurrency, lastPage, page1Count>>
taskLocals == <<attempts, resp, sleepLeft, result, count>>
mainVars == <<mainPc, mainErr, all_forks, page, heldPermit, org_forks, written>>

Init ==
  /\ concurrency \in Concurrencies
  /\ lastPage \in {<<>>} \cup {<<n>> : n \in Pages}
  /\ (lastPage # <<>> /\ concurrency > 1) => lastPage[1] <= MaxPages
  /\ (lastPage # <<>> /\ concurrency <= 1) => lastPage[1] <= MaxSerialPages
  /\ page1Count \in 0..PageSize
  \* a first page that is followed by others is full
  /\ (lastPage # <<>> /\ lastPage[1] > 1) => page1Count = PageSize
  /\ mainPc = "first_page"
  /\ mainErr = "none"
  /\ all_forks = <<>>
  /\ page = 2
  /\ permits = 0
  /\ heldPermit = FALSE
  /\ completed = 0
  /\ position = 0
  /\ taskPc = [p \in TaskPages |-> "unspawned"]
  /\ attempts = [p \in TaskPages |-> 0]
  /\ resp = [p \in TaskPages |-> "none"]
  /\ sleepLeft = [p \in TaskPages |-> 0]
  /\ result = [p \in TaskPages |-> "none"]
  /\ count = [p \in TaskPages |-> 0]
  /\ taskPermit = [p \in TaskPages |-> FALSE]
  /\ sends = [q \in Pages |-> 0]
  /\ org_forks = <<>>
  /\ written = "no"

total_pages == lastPage[1]

\* a task suspended at an .await: dropping the JoinSet cancels it there
AtAwait(p) == taskPc[p] \in {"ready", "fetching", "responded", "waiting"}

HoldsPermit(p) ==
  taskPc[p] \in {"ready", "fetching", "responded", "waiting", "returned", "counted"}

(* ------------------------------ page tasks ---------------------------- *)
\* the spawned future is polled for the first time: line 146 issues send()
TaskStart(p) ==
  /\ taskPc[p] = "ready"
  /\ taskPc' = [taskPc EXCEPT ![p] = "fetching"]
  /\ sends' = [sends EXCEPT ![p] = sends[p] + 1]
  /\ UNCHANGED <<taskPermit, input, mainVars, permits, completed, position, taskLocals>>

\* lines 264-270: the network call of page p returns o
Respond(p, o) ==
  /\ taskPc[p] = "fetching"
  /\ taskPc' = [taskPc EXCEPT ![p] = "responded"]
  /\ resp' = [resp EXCEPT ![p] = o]
  /\ UNCHANGED <<taskPermit, sends, input, mainVars, permits, completed, position,
                 attempts, sleepLeft, result, count>>

\* lines 271-305: the match on the answer
HandleResponse(p) ==
  /\ taskPc[p] = "responded"
  /\ IF resp[p] = "Ok"
       THEN /\ result' = [result EXCEPT ![p] = "Ok"]
            /\ taskPc' = [taskPc EXCEPT ![p] = "returned"]
            /\ UNCHANGED <<attempts, sleepLeft>>
       ELSE IF should_retry(resp[p], attempts[p])
         THEN /\ attempts' = [attempts EXCEPT ![p] = attempts[p] + 1]
              /\ sleepLeft' = [sleepLeft EXCEPT ![p] = backoff(attempts[p] + 1)]
              /\ taskPc' = [taskPc EXCEPT ![p] = "waiting"]
              /\ UNCHANGED result
         ELSE /\ result' = [result EXCEPT ![p] = resp[p]]
              /\ taskPc' = [taskPc EXCEPT ![p] = "returned"]
              /\ UNCHANGED <<attempts, sleepLeft>>
  /\ UNCHANGED <<taskPermit, sends, input, mainVars, permits, completed, position, resp, count>>

\* line 299: one second of the sleep passes
Tick(p) ==
  /\ taskPc[p] = "waiting"
  /\ sleepLeft[p] > 0
  /\ sleepLeft' = [sleepLeft EXCEPT ![p] = sleepLeft[p] - 1]
  /\ UNCHANGED <<taskPermit, sends, input, mainVars, permits, completed, position, taskPc,
                 attempts, resp, result, count>>

\* lines 299-300: the sleep is over, continue issues the next send()
Wake(p) ==
  /\ taskPc[p] = "waiting"
  /\ sleepLeft[p] = 0
  /\ taskPc' = [taskPc EXCEPT ![p] = "fetching"]
  /\ resp' = [resp EXCEPT ![p] = "none"]
  /\ sends' = [sends EXCEPT ![p] = sends[p] + 1]
  /\ UNCHANGED <<taskPermit, input, mainVars, permits, completed, position,
                 attempts, sleepLeft, result, count>>

\* the permit is given back when the fetch returns and not at the block's end
FetchAdd_ReleaseEarly(p) ==
  /\ taskPc[p] = "returned"
  /\ completed' = completed + 1
  /\ count' = [count EXCEPT ![p] = completed + 1]
  /\ attempts' = [attempts EXCEPT ![p] = 0]
  /\ resp' = [resp EXCEPT ![p] = "none"]
  /\ taskPc' = [taskPc EXCEPT ![p] = "counted"]
  /\ sends' = [sends EXCEPT ![p] = 0]
  /\ taskPermit' = [taskPermit EXCEPT ![p] = FALSE]
  /\ permits' = permits + 1
  /\ UNCHANGED <<input, mainVars, position, sleepLeft, result>>

\* line 149: fetch_page_with_retry has returned (its locals are gone)
FetchAdd(p) ==
  /\ taskPc[p] = "returned"
  /\ completed' = completed + 1
  /\ count' = [count EXCEPT ![p] = completed + 1]
  /\ attempts' = [attempts EXCEPT ![p] = 0]
  /\ resp' = [resp EXCEPT ![p] = "none"]
  /\ taskPc' = [taskPc EXCEPT ![p] = "counted"]
  /\ sends' = [sends EXCEPT ![p] = 0]
  /\ UNCHANGED <<taskPermit, input, mainVars, permits, position, sleepLeft, result>>

\* the permit travels with the result and is only freed by join_next
SetPosition_KeepPermit(p) ==
  /\ taskPc[p] = "counted"
  /\ position' = count[p]
  /\ count' = [count EXCEPT ![p] = 0]
  /\ taskPc' = [taskPc EXCEPT ![p] = "finished"]
  /\ UNCHANGED <<sends, input, mainVars, completed, attempts, resp, sleepLeft, result,
                 permits, taskPermit>>

\* lines 150-153: set_position, then the block ends: _permit is dropped and
\* the result becomes available to join_next
SetPosition(p) ==
  /\ taskPc[p] = "counted"
  /\ position' = count[p]
  /\ permits' = permits + 1
  /\ taskPermit' = [taskPermit EXCEPT ![p] = FALSE]
  /\ count' = [count EXCEPT ![p] = 0]
  /\ taskPc' = [taskPc EXCEPT ![p] = "finished"]
  /\ UNCHANGED <<sends, input, mainVars, completed, attempts, resp, sleepLeft, result>>

\* a panicking task does not give its permit back
Panic_LeakPermit(p) ==
  /\ taskPc[p] = "fetching"
  /\ result' = [result EXCEPT ![p] = "JoinError"]
  /\ attempts' = [attempts EXCEPT ![p] = 0]
  /\ taskPermit' = [taskPermit EXCEPT ![p] = FALSE]
  /\ taskPc' = [taskPc EXCEPT ![p] = "finished"]
  /\ sends' = [sends EXCEPT ![p] = 0]
  /\ UNCHANGED <<input, mainVars, completed, position, resp, sleepLeft, count, permits>>

\* the task panics while its request is outstanding: unwinding drops _permit
\* and join_next will report a JoinError
Panic(p) ==
  /\ taskPc[p] = "fetching"
  /\ result' = [result EXCEPT ![p] = "JoinError"]
  /\ attempts' = [attempts EXCEPT ![p] = 0]
  /\ permits' = permits + 1
  /\ taskPermit' = [taskPermit EXCEPT ![p] = FALSE]
  /\ taskPc' = [taskPc EXCEPT ![p] = "finished"]
  /\ sends' = [sends EXCEPT ![p] = 0]
  /\ UNCHANGED <<input, mainVars, completed, position, resp, sleepLeft, count>>

(* --------------------------------- main ------------------------------- *)
\* the tasks are detached: returning from main cancels nothing
ReturnErr_Detached(e) ==
  /\ mainPc' = "done"
  /\ mainErr' = e
  /\ UNCHANGED <<taskPc, attempts, resp, sleepLeft, taskPermit, permits>>

\* main returns Err(e): `tasks` is dropped, which aborts every task that is
\* suspended at an .await; an aborted future drops its permit
ReturnErr(e) ==
  /\ mainPc' = "done"
  /\ mainErr' = e
  /\ taskPc' = [p \in TaskPages |-> IF AtAwait(p) THEN "aborted" ELSE taskPc[p]]
  /\ attempts' = [p \in TaskPages |-> IF AtAwait(p) THEN 0 ELSE attempts[p]]
  /\ resp' = [p \in TaskPages |-> IF AtAwait(p) THEN "none" ELSE resp[p]]
  /\ sleepLeft' = [p \in TaskPages |-> IF AtAwait(p) THEN 0 ELSE sleepLeft[p]]
  /\ taskPermit' = [p \in TaskPages |-> IF AtAwait(p) THEN FALSE ELSE taskPermit[p]]
  /\ permits' = permits + Cardinality({p \in TaskPages : AtAwait(p)})

\* the spawn loop is entered whenever a page count is present
FirstPage_LoopFromOne(o) ==
  /\ mainPc = "first_page"
  /\ sends' = [sends EXCEPT ![1] = sends[1] + 1]
  /\ IF o = "Ok"
       THEN /\ all_forks' = all_forks \o Items(1, page1Count)
            /\ IF lastPage # <<>>
                 THEN /\ permits' = concurrency
                      /\ mainPc' = IF 1 <= total_pages THEN "spawn" ELSE "collect"
                 ELSE /\ mainPc' = "filter"
                      /\ UNCHANGED permits
            /\ UNCHANGED <<mainErr, taskPc, attempts, resp, sleepLeft, taskPermit>>
       ELSE /\ ReturnErr(o)
            /\ UNCHANGED all_forks
  /\ UNCHANGED <<input, page, heldPermit, completed, position, result, count,
                 org_forks, written>>

\* a failed first fetch is taken for an empty first page
FirstPage_IgnoreErr(o) ==
  /\ mainPc = "first_page"
  /\ sends' = [sends EXCEPT ![1] = sends[1] + 1]
  /\ all_forks' = IF o = "Ok" THEN all_forks \o Items(1, page1Count) ELSE all_forks
  /\ IF lastPage # <<>>
       THEN /\ permits' = concurrency
            /\ mainPc' = IF 2 <= total_pages THEN "spawn" ELSE "collect"
       ELSE /\ mainPc' = "filter"
            /\ UNCHANGED permits
  /\ UNCHANGED <<mainErr, taskPc, attempts, resp, sleepLeft, taskPermit>>
  /\ UNCHANGED <<input, page, heldPermit, completed, position, result, count,
                 org_forks, written>>

\* the pool is given at least one permit
FirstPage_AtLeastOnePermit(o) ==
  /\ mainPc = "first_page"
  /\ sends' = [sends EXCEPT ![1] = sends[1] + 1]
  /\ IF o = "Ok"
       THEN /\ all_forks' = all_forks \o Items(1, page1Count)
            /\ IF lastPage # <<>>
                 THEN /\ permits' = IF concurrency = 0 THEN 1 ELSE concurrency
                      /\ mainPc' = IF 2 <= total_pages THEN "spawn" ELSE "collect"
                 ELSE /\ mainPc' = "filter"
                      /\ UNCHANGED permits
            /\ UNCHANGED <<mainErr, taskPc, attempts, resp, sleepLeft, taskPermit>>
       ELSE /\ ReturnErr(o)
            /\ UNCHANGED all_forks
  /\ UNCHANGED <<input, page, heldPermit, completed, position, result, count,
                 org_forks, written>>

\* lines 107-134: the first page, fetched once and without retry
FirstPage(o) ==
  /\ mainPc = "first_page"
  /\ sends' = [sends EXCEPT ![1] = sends[1] + 1]
  /\ IF o = "Ok"
       THEN /\ all_forks' = all_forks \o Items(1, page1Count)
            /\ IF lastPage # <<>>
                 THEN /\ permits' = concurrency
                      /\ mainPc' = IF 2 <= total_pages THEN "spawn" ELSE "collect"
                 ELSE /\ mainPc' = "filter"
                      /\ UNCHANGED permits
            /\ UNCHANGED <<mainErr, taskPc, attempts, resp, sleepLeft, taskPermit>>
       ELSE /\ ReturnErr(o)
            /\ UNCHANGED all_forks
  /\ UNCHANGED <<input, page, heldPermit, completed, position, result, count,
                 org_forks, written>>

\* an acquire that does not wait for a free permit
Acquire_NoWait ==
  /\ mainPc = "spawn"
  /\ ~heldPermit
  /\ permits' = permits - 1
  /\ heldPermit' = TRUE
  /\ UNCHANGED <<taskPermit, sends, input, mainPc, mainErr, all_forks, page, completed, position,
                 taskPc, taskLocals, org_forks, written>>

\* line 140: acquire_owned().await
Acquire ==
  /\ mainPc = "spawn"
  /\ ~heldPermit
  /\ permits > 0
  /\ permits' = permits - 1
  /\ heldPermit' = TRUE
  /\ UNCHANGED <<taskPermit, sends, input, mainPc, mainErr, all_forks, page, completed, position,
                 taskPc, taskLocals, org_forks, written>>

\* lines 141-154: the permit moves into the spawned task; next iteration
Spawn ==
  /\ mainPc = "spawn"
  /\ heldPermit
  /\ heldPermit' = FALSE
  /\ taskPermit' = [taskPermit EXCEPT ![page] = TRUE]
  /\ taskPc' = [taskPc EXCEPT ![page] = "ready"]
  /\ page' = page + 1
  /\ mainPc' = IF page + 1 <= total_pages THEN "spawn" ELSE "collect"
  /\ UNCHANGED <<sends, input, mainErr, all_forks, permits, completed, position,
                 taskLocals, org_forks, written>>

\* a join_next() that only looks at the tasks that have already finished
InJoinSet_OnlyFinished(p) == taskPc[p] = "finished"

InJoinSet(p) == taskPc[p] \notin {"unspawned", "joined", "aborted"}

\* the page's records replace the aggregate instead of extending it
JoinNext_Overwrite(p) ==
  /\ mainPc = "collect"
  /\ taskPc[p] = "finished"
  /\ IF result[p] = "Ok"
       THEN /\ all_forks' = Items(p, PageSize)
            /\ taskPc' = [taskPc EXCEPT ![p] = "joined"]
            /\ UNCHANGED <<mainPc, mainErr, permits, attempts, resp, sleepLeft, sends,
                           taskPermit>>
       ELSE /\ ReturnErr(result[p])
            /\ sends' = [q \in Pages |->
                           IF q \in TaskPages /\ AtAwait(q) THEN 0 ELSE sends[q]]
            /\ UNCHANGED all_forks
  /\ UNCHANGED <<input, page, heldPermit, completed, position, result, count,
                 org_forks, written>>

\* a failed page is logged and skipped instead of ending the run
JoinNext_SkipErr(p) ==
  /\ mainPc = "collect"
  /\ taskPc[p] = "finished"
  /\ all_forks' = IF result[p] = "Ok" THEN all_forks \o Items(p, PageSize)
                                       ELSE all_forks
  /\ taskPc' = [taskPc EXCEPT ![p] = "joined"]
  /\ UNCHANGED <<mainPc, mainErr, permits, attempts, resp, sleepLeft, sends>>
  /\ UNCHANGED <<taskPermit, input, page, heldPermit, completed, position, result, count,
                 org_forks, written>>

\* a task that did not complete is passed over
JoinNext_SkipJoinErr(p) ==
  /\ mainPc = "collect"
  /\ taskPc[p] = "finished"
  /\ IF result[p] \in {"Ok", "JoinError"}
       THEN /\ all_forks' = IF result[p] = "Ok" THEN all_forks \o Items(p, PageSize)
                                                 ELSE all_forks
            /\ taskPc' = [taskPc EXCEPT ![p] = "joined"]
            /\ UNCHANGED <<mainPc, mainErr, permits, attempts, resp, sleepLeft, sends,
                           taskPermit>>
       ELSE /\ ReturnErr(result[p])
            /\ sends' = [q \in Pages |->
                           IF q \in TaskPages /\ AtAwait(q) THEN 0 ELSE sends[q]]
            /\ UNCHANGED all_forks
  /\ UNCHANGED <<input, page, heldPermit, completed, position, result, count,
                 org_forks, written>>

\* lines 157-171: join_next() yields the result of a finished task
JoinNext(p) ==
  /\ mainPc = "collect"
  /\ taskPc[p] = "finished"
  /\ IF result[p] = "Ok"
       THEN /\ all_forks' = all_forks \o Items(p, PageSize)
            /\ taskPc' = [taskPc EXCEPT ![p] = "joined"]
            /\ UNCHANGED <<mainPc, mainErr, permits, attempts, resp, sleepLeft, sends,
                           taskPermit>>
       ELSE /\ ReturnErr(result[p])
            /\ sends' = [q \in Pages |->
                           IF q \in TaskPages /\ AtAwait(q) THEN 0 ELSE sends[q]]
            /\ UNCHANGED all_forks
  /\ UNCHANGED <<input, page, heldPermit, completed, position, result, count,
                 org_forks, written>>

\* lines 157, 174: join_next() yields None, the set is empty
JoinNone ==
  /\ mainPc = "collect"
  /\ \A p \in TaskPages : ~InJoinSet(p)
  /\ mainPc' = "filter"
  /\ position' = total_pages - 1
  /\ UNCHANGED <<taskPermit, sends, input, mainErr, all_forks, page, permits, heldPermit, completed,
                 taskPc, taskLocals, org_forks, written>>

\* lines 179-197
Filter ==
  /\ mainPc = "filter"
  /\ org_forks' = filter_map(all_forks)
  /\ mainPc' = "write"
  /\ UNCHANGED <<taskPermit, sends, input, mainErr, all_forks, page, permits, heldPermit, completed,
                 position, taskPc, taskLocals, written>>

WriteOutcomes == {"ok", "mkdir_failed", "write_failed"}

\* lines 199-213: create_dir_all, then write_results
WriteResults(o) ==
  /\ mainPc = "write"
  /\ mainPc' = "done"
  /\ written' = CASE o = "ok" -> "full"
                  [] o = "mkdir_failed" -> "no"
                  [] OTHER -> "partial"
  /\ mainErr' = IF o = "ok" THEN "none" ELSE "IoError"
  /\ UNCHANGED <<taskPermit, sends, input, all_forks, page, permits, heldPermit, completed,
                 position, taskPc, taskLocals, org_forks>>

\* the steps of the task of page p
TaskStep(p) ==
  \/ TaskStart(p)
  \/ \E o \in Outcomes : Respond(p, o)
  \/ HandleResponse(p)
  \/ Tick(p)
  \/ Wake(p)
  \/ FetchAdd(p)
  \/ SetPosition(p)
  \/ Panic(p)

TaskNext == \E p \in TaskPages : TaskStep(p)

MainNext ==
  \/ \E o \in Outcomes : FirstPage(o)
  \/ Acquire
  \/ Spawn
  \/ \E p \in TaskPages : JoinNext(p)
  \/ JoinNone
  \/ Filter
  \/ \E o \in WriteOutcomes : WriteResults(o)

Next == TaskNext \/ MainNext

Spec == Init /\ [][Next]_vars

\* The inputs of the fair specification: those of Init, the default pool
\* size (which the pages tried never exhaust) with one page less.
FairInit ==
  /\ Init
  /\ (lastPage # <<>> /\ concurrency = DefaultConcurrency) => lastPage[1] < MaxPages

\* The runtime polls every task that can run, every network call returns
\* and every timer fires.
FairSpec ==
  /\ FairInit
  /\ [][Next]_vars
  /\ WF_vars(MainNext)
  /\ \A p \in TaskPages : WF_vars(TaskStep(p))

(* ------------------------------ properties ---------------------------- *)
\* N: the number of pages of the repository
NumPages == IF lastPage = <<>> THEN 1 ELSE total_pages

\* what the remote holds on page q
PageRecords(q) == Items(q, IF q = 1 THEN page1Count ELSE PageSize)

Occurrences(seq, x) == Cardinality({i \in 1..Len(seq) : seq[i] = x})

RECURSIVE SumLen(_)
SumLen(q) == IF q = 0 THEN 0 ELSE Len(PageRecords(q)) + SumLen(q - 1)

\* the orchestrator has left the collection loop without returning an error
Collected ==
  \/ mainPc \in {"filter", "write"}
  \/ mainPc = "done" /\ mainErr \in {"none", "IoError"}

\* C1: whenever the orchestrator finishes successfully for a repository with
\* N pages, every record of every page 1..N is in all_forks exactly once and
\* all_forks holds nothing else.
C1_AggregateComplete ==
  Collected =>
    /\ \A q \in 1..NumPages : \A i \in 1..Len(PageRecords(q)) :
         Occurrences(all_forks, PageRecords(q)[i]) = 1
    /\ Len(all_forks) = SumLen(NumPages)

\* a successful run over the largest repository, every task joined
C1_Witness ==
  /\ mainPc = "done" /\ mainErr = "none"
  /\ NumPages = MaxPages
  /\ \A p \in 2..NumPages : taskPc[p] = "joined"

\* tasks that have started fetch_page_with_retry and not yet resolved
InFlight == {p \in TaskPages : taskPc[p] \in {"fetching", "responded", "waiting"}}

RateLimitErrors == {"RateLimit403"}
NonRetryable == FetchErrors \ RateLimitErrors

\* C3: a page's rate-limit failures are retried at most 3 times (at most 4
\* send() calls); a success after N rate-limit failures took exactly N
\* retries, a rate-limit error is returned only by the 4th send(), and the
\* count is the page's own under every interleaving with the other pages.
C3_BoundedRetries ==
  \A p \in TaskPages :
    /\ attempts[p] <= 3
    /\ sends[p] <= 4
    /\ taskPc[p] \in {"fetching", "responded"} => sends[p] = attempts[p] + 1
    /\ taskPc[p] = "waiting" => sends[p] = attempts[p]
    /\ (taskPc[p] = "returned" /\ result[p] = "Ok") => sends[p] = attempts[p] + 1
    /\ (taskPc[p] = "returned" /\ result[p] \in RateLimitErrors) =>
         (attempts[p] = 3 /\ sends[p] = 4)

\* one page has succeeded on its 3rd retry while another has given up after
\* its 4th rate-limit failure
C3_Witness ==
  \E p, q \in TaskPages :
    /\ taskPc[p] = "returned" /\ result[p] = "Ok" /\ attempts[p] = 3
    /\ taskPc[q] = "returned" /\ result[q] \in RateLimitErrors /\ sends[q] = 4

\* C4: a non-retryable error ends fetch_page_with_retry with that error and
\* without another send() for the page, also after earlier rate-limit
\* retries; no backoff wait follows such an error, and a run with such a
\* page result never leaves the collection loop successfully.
C4_NonRetryableReturnsAtOnce ==
  /\ [](\A p \in TaskPages :
          /\ taskPc[p] = "waiting" => resp[p] \in RateLimitErrors
          /\ result[p] \in NonRetryable =>
               (taskPc[p] \in {"returned", "counted", "finished"} /\ ~Collected))
  /\ [][\A p \in TaskPages :
          /\ (taskPc[p] = "responded" /\ resp[p] \in NonRetryable
                /\ taskPc'[p] # "responded") =>
               \/ taskPc'[p] = "aborted"
               \/ (taskPc'[p] = "returned" /\ result'[p] = resp[p]
                     /\ sends'[p] = sends[p])
          /\ taskPc[p] \in {"returned", "counted", "finished"} =>
               sends'[p] <= sends[p]]_vars

\* a page has returned a non-retryable error after two rate-limit retries
C4_Witness ==
  \E p \in TaskPages :
    /\ taskPc[p] = "returned"
    /\ result[p] \in NonRetryable
    /\ attempts[p] = 2 /\ sends[p] = 3

\* page tasks that have resolved to a final fetch failure
FailedTasks == {p \in TaskPages : result[p] \in FetchErrors}

\* main is suspended and only a task that has not failed can resume it:
\* at acquire_owned() with every permit held by other tasks, or at
\* join_next() with no finished task
WaitsOnOtherTasks ==
  /\ \A p \in FailedTasks : ~HoldsPermit(p)
  /\ \/ mainPc = "spawn" /\ ~heldPermit /\ permits = 0
     \/ mainPc = "collect" /\ \A p \in TaskPages : taskPc[p] # "finished"

\* C5: once a page task has resolved to a final failure, main does not block
\* on the completion of any other task, neither for its result nor for a
\* permit it holds, before it returns the error.
C5_NoWaitAfterFailure ==
  (mainPc # "done" /\ FailedTasks # {}) => ~WaitsOnOtherTasks

\* C6: a secondary-rate-limit error of any page fetch, the fetch of page 1
\* included, reaches the caller only after 3 retries of that fetch, that is
\* after 4 send() calls for the page.
C6_RateLimitSurfacedAfterRetries ==
  /\ \A p \in TaskPages :
       (taskPc[p] = "returned" /\ result[p] \in RateLimitErrors) => sends[p] = 4
  /\ (mainErr \in RateLimitErrors /\ \A p \in TaskPages : taskPc[p] = "unspawned") =>
       sends[1] = 4

Range(seq) == {seq[i] : i \in 1..Len(seq)}

\* C7: with no errors, the final aggregate taken as a set is the union of
\* the records of pages 1..N, whatever the order in which the page tasks
\* complete and are joined.
C7_OrderIndependent ==
  Collected => Range(all_forks) = UNION {Range(PageRecords(q)) : q \in 1..NumPages}

\* a successful run that joined a later page before an earlier one
C7_Witness ==
  /\ mainPc = "done" /\ mainErr = "none"
  /\ \E i, j \in 1..Len(all_forks) :
       i < j /\ all_forks[i].name[1] > all_forks[j].name[1]

\* C8: a run that fails with a fetch error or a join error has written
\* nothing, and whatever write_results has written was written with every
\* page 1..N in the aggregate and every page task joined.
C8_NoPartialOutput ==
  /\ mainErr \in FetchErrors \cup {"JoinError"} => written = "no"
  /\ written # "no" =>
       /\ \A q \in 2..NumPages : taskPc[q] = "joined" /\ result[q] = "Ok"
       /\ \A q \in 1..NumPages : Range(PageRecords(q)) \subseteq Range(all_forks)

\* the run failed on a page after another page had been merged
C8_Witness ==
  /\ mainPc = "done"
  /\ mainErr \in FetchErrors \cup {"JoinError"}
  /\ \E p \in TaskPages : taskPc[p] = "joined"
  /\ written = "no"

\* C9: when page 1 reports no further pages (count absent, or 1), no task
\* is spawned, no permit is acquired, main is never suspended, and the
\* aggregate is page 1's records (empty if page 1 is empty) with no error
\* other than one of writing the report.
C9_SinglePage ==
  (NumPages = 1 /\ mainPc # "first_page" /\ mainErr \notin FetchErrors) =>
    /\ \A p \in TaskPages : taskPc[p] = "unspawned"
    /\ ~heldPermit
    /\ permits = IF lastPage = <<>> THEN 0 ELSE concurrency
    /\ all_forks = PageRecords(1)
    /\ page1Count = 0 => all_forks = <<>>
    /\ mainErr \in {"none", "IoError"}
    /\ mainPc # "done" => ENABLED MainNext

\* a repository without forks whose page count is 1: an empty report
C9_Witness ==
  /\ lastPage = <<1>> /\ page1Count = 0
  /\ mainPc = "done" /\ mainErr = "none"
  /\ all_forks = <<>> /\ org_forks = <<>> /\ written = "full"

\* the waits of a page in seconds, by retry number
Schedule == <<2, 4, 8>>

\* C10: the sleep before the k-th retry of a page lasts 2, 4, 8 seconds for
\* k = 1, 2, 3, and the page's next send() is issued only when the whole
\* sleep has elapsed: none is issued while the page waits.
C10_Backoff ==
  [][\A p \in TaskPages :
       /\ (taskPc[p] # "waiting" /\ taskPc'[p] = "waiting") =>
            /\ attempts'[p] = attempts[p] + 1
            /\ attempts'[p] \in 1..3
            /\ sleepLeft'[p] = Schedule[attempts'[p]]
       /\ (taskPc[p] = "waiting" /\ taskPc'[p] = "waiting") =>
            /\ sleepLeft'[p] \in {sleepLeft[p], sleepLeft[p] - 1}
            /\ sends'[p] = sends[p]
       /\ (taskPc[p] = "waiting" /\ sends'[p] > sends[p]) => sleepLeft[p] = 0
       /\ (taskPc[p] = "waiting" /\ taskPc'[p] \notin {"waiting", "aborted"}) =>
            (sleepLeft[p] = 0 /\ taskPc'[p] = "fetching")]_vars

\* the 8 seconds before the third retry have all elapsed
C10_Witness ==
  \E p \in TaskPages :
    taskPc[p] = "waiting" /\ attempts[p] = 3 /\ sleepLeft[p] = 0

\* main has computed org_forks
Filtered ==
  \/ mainPc = "write"
  \/ mainPc = "done" /\ mainErr \in {"none", "IoError"}

IsOrganization(fork) == fork.owner # <<>> /\ fork.owner[1].type = "Organization"

\* C11: org_forks holds one row per aggregate record whose owner type is
\* Organization, in the aggregate's order, each row being (owner login, fork
\* name, URL) with the empty string for a missing URL; records of other
\* owners or without owner contribute no row.
C11_FilterOrganizations ==
  Filtered =>
    LET kept == {i \in 1..Len(all_forks) : IsOrganization(all_forks[i])}
    IN  /\ Len(org_forks) = Cardinality(kept)
        /\ \A i \in kept :
             LET j == Cardinality({k \in kept : k <= i})
             IN  /\ org_forks[j][1] = all_forks[i].owner[1].login
                 /\ org_forks[j][2] = all_forks[i].name
                 /\ all_forks[i].html_url = <<>> => org_forks[j][3] = ""
                 /\ all_forks[i].html_url # <<>> =>
                      org_forks[j][3] = all_forks[i].html_url[1]
        /\ \A j \in 1..Len(org_forks) : org_forks[j][1][1] = "org"

\* the aggregate held a user's fork, a fork without owner and an
\* organization's fork without URL; only the organizations' rows are left
C11_Witness ==
  /\ mainPc = "done" /\ mainErr = "none"
  /\ \E i \in 1..Len(all_forks) :
       all_forks[i].owner # <<>> /\ all_forks[i].owner[1].type = "User"
  /\ \E i \in 1..Len(all_forks) : all_forks[i].owner = <<>>
  /\ \E j \in 1..Len(org_forks) : org_forks[j][3] = ""
  /\ \E j \in 1..Len(org_forks) : org_forks[j][3] # ""

\* main is suspended in acquire_owned(): no permit is free
MainWaitsForPermit == mainPc = "spawn" /\ ~heldPermit /\ permits = 0

\* C12: a page's permit is acquired by the page's task, so that main is
\* never suspended waiting for a permit: it spawns every task and starts
\* collecting while tasks still wait for a permit.
C12_MainNeverWaitsForPermit == ~MainWaitsForPermit

\* C13: a page's task owns a permit from before its first send() through
\* every retry and backoff wait until its fetch has resolved; the task gives
\* it up only by finishing (or by being cancelled), so that a task sleeping
\* in backoff keeps a slot of the pool occupied.
C13_PermitHeldThroughFetch ==
  /\ [](\A p \in TaskPages :
          /\ sends[p] > 0 => taskPermit[p]
          /\ taskPc[p] \in {"ready", "fetching", "responded", "waiting", "returned"}
               => taskPermit[p]
          /\ permits <= concurrency - Cardinality({q \in TaskPages : taskPermit[q]}))
  /\ [][\A p \in TaskPages :
          (taskPermit[p] /\ ~taskPermit'[p]) =>
            /\ taskPc'[p] \in {"finished", "aborted"}
            /\ taskPc[p] \notin {"returned"}
            /\ taskPc'[p] = "finished" => result'[p] # "none"]_vars

\* the pool of one permit is taken by a task that sleeps before its third
\* retry, and main waits for it
C13_Witness ==
  /\ concurrency = 1 /\ permits = 0
  /\ \E p \in TaskPages :
       taskPc[p] = "waiting" /\ attempts[p] = 3 /\ taskPermit[p]
  /\ MainWaitsForPermit

\* main has returned a fetch error or a join error
FailedRun == mainPc = "done" /\ mainErr \in FetchErrors \cup {"JoinError"}

\* no task is running and no task owns a permit
Quiescent ==
  /\ \A p \in TaskPages :
       /\ taskPc[p] \in {"unspawned", "finished", "joined", "aborted"}
       /\ ~taskPermit[p]
  /\ ~heldPermit
  /\ permits = IF \A p \in TaskPages : taskPc[p] = "unspawned" THEN 0 ELSE concurrency

\* C14: after main has returned an error, every spawned task eventually has
\* completed or been cancelled and every permit is back in the pool, and no
\* send() is issued any more.
C14_NoLeakedWork ==
  /\ FailedRun ~> Quiescent
  /\ [][FailedRun => \A q \in Pages : sends'[q] <= sends[q]]_vars

\* main has returned a page's error while another task, its fetch done, has
\* not yet ended and still owns its permit
C14_Witness ==
  /\ FailedRun
  /\ \E q \in TaskPages : taskPc[q] = "counted" /\ taskPermit[q]

\* the fetch of page 1 has completed successfully: its records are the head
\* of the aggregate and its page count has been read
FirstPageMerged ==
  /\ mainPc # "first_page"
  /\ sends[1] = 1
  /\ Len(all_forks) >= page1Count
  /\ SubSeq(all_forks, 1, page1Count) = PageRecords(1)
  /\ lastPage # <<>> /\ total_pages >= 2 /\ page1Count > 0

\* C15: a page task exists, or a permit is taken, only after the fetch of
\* page 1 has completed successfully and reported further pages; a run
\* whose first fetch failed never has a task.
C15_FirstPageFirst ==
  /\ (\/ heldPermit
      \/ \E p \in TaskPages : taskPc[p] # "unspawned" \/ taskPermit[p] \/ sends[p] > 0)
       => FirstPageMerged
  /\ (mainPc = "done" /\ sends[1] = 1 /\ all_forks = <<>> /\ mainErr \in FetchErrors)
       => \A p \in TaskPages : taskPc[p] = "unspawned" /\ ~taskPermit[p]

\* the first task has just been spawned, page 1 is in the aggregate
C15_Witness ==
  /\ mainPc = "spawn" /\ page = 3
  /\ taskPc[2] = "ready" /\ taskPermit[2]
  /\ all_forks = PageRecords(1)

\* C16: a task that failed to complete (a join error) ends the run with
\* that error like a failed fetch does: the page adds nothing to the
\* aggregate, the task is never taken for joined, nothing is written and the
\* run does not succeed.
C16_JoinErrorAborts ==
  /\ \A p \in TaskPages :
       result[p] = "JoinError" =>
         /\ taskPc[p] = "finished"
         /\ Range(PageRecords(p)) \cap Range(all_forks) = {}
         /\ ~Collected
  /\ mainErr = "JoinError" =>
       /\ mainPc = "done" /\ written = "no" /\ org_forks = <<>>
       /\ \E p \in TaskPages : result[p] = "JoinError"
       /\ \A p \in TaskPages : taskPc[p] \notin {"ready", "fetching", "responded", "waiting"}

\* main has returned the join error of one page after merging another
C16_Witness ==
  /\ mainPc = "done" /\ mainErr = "JoinError"
  /\ \E p \in TaskPages : taskPc[p] = "joined"

\* C17: with a pool of at least one permit, fair scheduling and network
\* calls that return, main terminates, in success or with one error; main
\* joins no task before it has spawned every page.
C17_Terminates ==
  /\ (concurrency >= 1) => <>(mainPc = "done")
  /\ [](\A p \in TaskPages :
          taskPc[p] = "joined" =>
            \A q \in 2..NumPages : taskPc[q] # "unspawned")

\* a successful run over the largest repository with a single permit: main
\* waited for each task's permit in turn
C17_Witness ==
  /\ concurrency = 1 /\ NumPages = MaxSerialPages
  /\ mainPc = "done" /\ mainErr = "none"
  /\ permits = 1

\* line 133 has run: the semaphore exists
SemaphoreCreated ==
  /\ lastPage # <<>>
  /\ mainPc # "first_page"
  /\ ~(mainErr \in FetchErrors /\ \A p \in TaskPages : taskPc[p] = "unspawned")

\* spawned tasks whose block has not ended
Unfinished ==
  {p \in TaskPages :
     taskPc[p] \in {"ready", "fetching", "responded", "waiting", "returned", "counted"}}

\* C18: the free permits plus those held, by main between acquire and
\* spawn or by unfinished tasks, are the configured concurrency; unfinished
\* tasks never outnumber it; with no task unfinished every permit is free.
C18_PermitsConserved ==
  /\ permits >= 0
  /\ Cardinality(Unfinished) <= concurrency
  /\ SemaphoreCreated =>
       /\ permits + (IF heldPermit THEN 1 ELSE 0)
             + Cardinality({p \in TaskPages : taskPermit[p]}) = concurrency
       /\ {p \in TaskPages : taskPermit[p]} = Unfinished
       /\ (Unfinished = {} /\ ~heldPermit) => permits = concurrency

\* both permits are out: one with a running task, one in main's hands
C18_Witness ==
  /\ concurrency = 2 /\ permits = 0
  /\ heldPermit
  /\ Cardinality(Unfinished) = 1

\* C19: with concurrency 0 and more than one page, main stays in the first
\* acquire_owned() for ever: nothing in the program can take a step, no
\* task exists, no send() for pages 2..N was issued, and main has neither
\* succeeded nor returned an error.
C19_ZeroConcurrencyBlocks ==
  (/\ concurrency = 0
   /\ NumPages >= 2
   /\ mainPc # "first_page"
   /\ mainErr \notin FetchErrors) =>
    /\ mainPc = "spawn" /\ page = 2
    /\ ~heldPermit /\ permits = 0
    /\ mainErr = "none" /\ written = "no"
    /\ \A p \in TaskPages : taskPc[p] = "unspawned" /\ sends[p] = 0
    /\ ~ENABLED Next

\* page 1 of a three-page repository is in, the pool is empty
C19_Witness ==
  /\ concurrency = 0 /\ NumPages = 3
  /\ mainPc = "spawn"
  /\ all_forks = PageRecords(1)

\* the tasks that have executed fetch_add (a panicking task never does)
PastFetchAdd ==
  {p \in TaskPages :
     \/ taskPc[p] = "counted"
     \/ taskPc[p] \in {"finished", "joined"} /\ result[p] # "JoinError"}

\* the counter is the number of tasks whose fetch has finished and is at
\* most total_pages - 1
CounterCountsFetches ==
  /\ completed = Cardinality(PastFetchAdd)
  /\ lastPage # <<>> => completed <= total_pages - 1

\* every task's block has run to its end
AllTasksFinished ==
  /\ lastPage # <<>> /\ total_pages >= 2
  /\ \A p \in 2..total_pages :
       taskPc[p] \in {"finished", "joined"} /\ result[p] # "JoinError"

PositionNeverDecreases == [][position' >= position]_vars

PositionReachesLen == AllTasksFinished => position = total_pages - 1

\* C20: the completed counter equals the number of page tasks that have
\* finished their fetch and never exceeds total_pages - 1; the progress
\* position never decreases under any interleaving of the tasks, and it is
\* total_pages - 1 once all tasks have finished.
C20_ProgressMonotone ==
  /\ []CounterCountsFetches
  /\ PositionNeverDecreases
  /\ []PositionReachesLen
====
